---- MODULE Spec2Model ----
(***************************************************************************)
(* Resume analyzer: backend/app/resume_analyzer.py and backend/app/main.py *)
(*                                                                         *)
(* A Python str is a sequence of one-character strings.  None is the       *)
(* one-element sequence <<"None">>, whose element is no character.         *)
(* A float percentage is an integer number of thousandths of a percent     *)
(* before rounding and of hundredths of a percent after round(x, 2).       *)
(***************************************************************************)
EXTENDS Integers, Sequences, FiniteSets, TLC

VARIABLES
    STOPWORDS,       \* resume_analyzer.STOPWORDS, the module-level set
    request,         \* request[r]: the HTTP request r, as received
    pc,              \* pc[r]: where the handler of request r stands
    resume_text,     \* the locals of request r's analyze_resume call ...
    jd_text,
    match_score,
    jd_keywords,
    skills_present,
    skills_missing,
    summary,
    result,          \* what analyze_resume gave the handler of request r
    response,        \* what the handler of request r gave the client
    scorer_calls,    \* the calls of compute_semantic_match so far
    keyword_calls,   \* the calls of extract_keywords by analyze_resume so far
    call,            \* a direct call of one of the text functions
    ret              \* and what it returned

reqVars == <<request, pc, resume_text, jd_text, match_score, jd_keywords,
             skills_present, skills_missing, summary, result, response,
             scorer_calls, keyword_calls>>
callVars == <<call, ret>>
vars == <<STOPWORDS, reqVars, callVars>>

----------------------------------------------------------------------------
(* Characters *)

None == <<"None">>

Whitespace == {" ", "\t", "\n", "\r", "\f"}

(* string.punctuation, without the grave accent, which a TLA+ string
   cannot hold *)
Punctuation ==
    {"!", "\"", "#", "$", "%", "&", "'", "(", ")", "*", "+", ",", "-", ".",
     "/", ":", ";", "<", "=", ">", "?", "@", "[", "\\", "]", "^", "_",
     "{", "|", "}", "~"}

UpperChars ==
    <<"A","B","C","D","E","F","G","H","I","J","K","L","M",
      "N","O","P","Q","R","S","T","U","V","W","X","Y","Z">>

LowerChars ==
    <<"a","b","c","d","e","f","g","h","i","j","k","l","m",
      "n","o","p","q","r","s","t","u","v","w","x","y","z">>

Digits == {"0","1","2","3","4","5","6","7","8","9"}

Range(s) == {s[i] : i \in 1..Len(s)}

(* the sequence a function over 1..n is, built once *)
List(f) == f \o <<>>

LowerChar(c) ==
    IF c \in Range(UpperChars)
    THEN LowerChars[CHOOSE i \in 1..Len(UpperChars) : UpperChars[i] = c]
    ELSE c

Lower(s) == List([i \in 1..Len(s) |-> LowerChar(s[i])])

(* x in s, for two strs: x occurs in s as a contiguous run *)
IsSubstring(x, s) ==
    \E i \in 0..(Len(s) - Len(x)) : \A j \in 1..Len(x) : s[i + j] = x[j]

Prefix(s, n) == IF Len(s) <= n THEN s ELSE SubSeq(s, 1, n)

----------------------------------------------------------------------------
(* resume_analyzer.py *)

(* the set the module builds at import and binds to STOPWORDS *)
STOPWORDS_AT_IMPORT ==
    { <<"a">>, <<"a","n">>, <<"t","h","e">>, <<"a","n","d">>, <<"o","r">>,
      <<"b","u","t">>, <<"i","f">>, <<"w","h","i","l","e">>,
      <<"w","i","t","h">>, <<"w","i","t","h","o","u","t">>, <<"t","o">>,
      <<"f","r","o","m">>, <<"i","n">>, <<"o","n">>, <<"a","t">>,
      <<"f","o","r">>, <<"o","f">>, <<"b","y">>, <<"a","s">>, <<"i","s">>,
      <<"a","r","e">>, <<"w","a","s">>, <<"w","e","r","e">>, <<"b","e">>,
      <<"b","e","e","n">>, <<"b","e","i","n","g">>, <<"t","h","i","s">>,
      <<"t","h","a","t">>, <<"t","h","e","s","e">>, <<"t","h","o","s","e">>,
      <<"y","o","u">>, <<"y","o","u","r">>, <<"t","h","e","i","r">>,
      <<"o","u","r">>, <<"m","y">>, <<"i">>, <<"t","h","e","y">>,
      <<"h","e">>, <<"s","h","e">>, <<"i","t">>, <<"w","e">>,
      <<"t","h","e","m">>, <<"h","i","s">>, <<"h","e","r">>,
      <<"i","t","s">> }

(* text.replace("\n", " ") *)
ReplaceNewlines(s) ==
    List([i \in 1..Len(s) |-> IF s[i] = "\n" THEN " " ELSE s[i]])

(* re.sub(r"\s+", " ", text): every maximal whitespace run becomes one space *)
CollapseWhitespace(s) ==
    LET marked == [i \in 1..Len(s) |->
                      IF s[i] \notin Whitespace THEN s[i]
                      ELSE IF i > 1 /\ s[i - 1] \in Whitespace THEN "rest-of-run"
                      ELSE " "]
    IN  SelectSeq(marked, LAMBDA c : c # "rest-of-run")

(* text.lstrip() in place of text.strip() *)
StripLeftOnly(s) ==
    LET keep == {i \in 1..Len(s) : s[i] \notin Whitespace}
    IN  IF keep = {} THEN <<>>
        ELSE SubSeq(s, CHOOSE i \in keep : \A j \in keep : i <= j, Len(s))

(* text.strip() *)
Strip(s) ==
    LET keep == {i \in 1..Len(s) : s[i] \notin Whitespace}
    IN  IF keep = {} THEN <<>>
        ELSE LET lo == CHOOSE i \in keep : \A j \in keep : i <= j
                 hi == CHOOSE i \in keep : \A j \in keep : j <= i
             IN  SubSeq(s, lo, hi)

clean_text(text) ==
    IF text = None \/ text = <<>> THEN <<>>
    ELSE Strip(CollapseWhitespace(ReplaceNewlines(text)))

(* text.translate(str.maketrans("", "", string.punctuation)) *)
StripPunctuation(s) == SelectSeq(s, LAMBDA c : c \notin Punctuation)

(* text.split(): the maximal runs of non-whitespace characters, in order *)
Split(s) ==
    LET inWord(i) == i >= 1 /\ i <= Len(s) /\ s[i] \notin Whitespace
        starts == SelectSeq([i \in 1..Len(s) |-> i],
                            LAMBDA i : inWord(i) /\ ~inWord(i - 1))
        endOf(i) == CHOOSE j \in i..Len(s) :
                        /\ ~inWord(j + 1)
                        /\ \A k \in i..j : inWord(k)
    IN  List([k \in 1..Len(starts) |-> SubSeq(s, starts[k], endOf(starts[k]))])

(* len(t) > 1 in place of len(t) > 2 *)
KeepTokenLongerThanOne(t) == t \notin STOPWORDS /\ Len(t) > 1

(* the filter of tokenize's list comprehension *)
KeepToken(t) == t \notin STOPWORDS /\ Len(t) > 2

tokenize(text) == SelectSeq(Split(StripPunctuation(Lower(text))), KeepToken)

(* Counter(tokens): the distinct tokens in order of first occurrence, each
   with its number of occurrences *)
CountOf(tokens, w) == Cardinality({i \in 1..Len(tokens) : tokens[i] = w})

Counter(tokens) ==
    LET first == {i \in 1..Len(tokens) : \A j \in 1..(i - 1) : tokens[j] # tokens[i]}
        distinct == SelectSeq([i \in 1..Len(tokens) |->
                                  IF i \in first THEN tokens[i] ELSE <<>>],
                              LAMBDA w : w # <<>>)
    IN  List([k \in 1..Len(distinct) |->
                [word |-> distinct[k], count |-> CountOf(tokens, distinct[k])]])

(* equal counts in the reverse of the Counter's order *)
PrecedesLastFirst(items, i, j) ==
    \/ items[i].count > items[j].count
    \/ items[i].count = items[j].count /\ i > j

(* the entry most_common puts before another: the higher count, and of two
   equal counts the one the Counter holds first *)
Precedes(items, i, j) ==
    \/ items[i].count > items[j].count
    \/ items[i].count = items[j].count /\ i < j

(* freq.most_common(n) *)
most_common(items, n) ==
    LET rank(i) == 1 + Cardinality({j \in 1..Len(items) : Precedes(items, j, i)})
        size == IF n < 0 THEN 0 ELSE IF n < Len(items) THEN n ELSE Len(items)
    IN  List([k \in 1..size |-> items[CHOOSE i \in 1..Len(items) : rank(i) = k]])

extract_keywords(text, top_k) ==
    LET tokens == tokenize(text)
    IN  IF tokens = <<>> THEN <<>>
        ELSE LET freq == Counter(tokens)
                 common == most_common(freq, top_k)
             IN  List([k \in 1..Len(common) |-> common[k].word])

----------------------------------------------------------------------------
(* Natural numbers beyond 32 bits, for the cosine: little-endian sequences
   of limbs base 10^4, without leading zero limbs *)

Base == 10000

RECURSIVE BigFromInt(_)
BigFromInt(n) == IF n = 0 THEN <<>> ELSE <<n % Base>> \o BigFromInt(n \div Base)

RECURSIVE BigAddCarry(_, _, _)
BigAddCarry(a, b, carry) ==
    IF a = <<>> /\ b = <<>> THEN BigFromInt(carry)
    ELSE LET x == IF a = <<>> THEN 0 ELSE Head(a)
             y == IF b = <<>> THEN 0 ELSE Head(b)
             t == x + y + carry
         IN  <<t % Base>> \o BigAddCarry(IF a = <<>> THEN a ELSE Tail(a),
                                         IF b = <<>> THEN b ELSE Tail(b),
                                         t \div Base)

BigAdd(a, b) == BigAddCarry(a, b, 0)

RECURSIVE BigMulLimb(_, _, _)
BigMulLimb(a, m, carry) ==
    IF m = 0 THEN <<>>
    ELSE IF a = <<>> THEN BigFromInt(carry)
    ELSE LET t == Head(a) * m + carry
         IN  <<t % Base>> \o BigMulLimb(Tail(a), m, t \div Base)

RECURSIVE BigMul(_, _)
BigMul(a, b) ==
    IF a = <<>> \/ b = <<>> THEN <<>>
    ELSE LET rest == BigMul(a, Tail(b))
         IN  BigAdd(BigMulLimb(a, Head(b), 0),
                    IF rest = <<>> THEN <<>> ELSE <<0>> \o rest)

RECURSIVE BigLeq(_, _)
BigLeq(a, b) ==
    IF Len(a) # Len(b) THEN Len(a) < Len(b)
    ELSE IF a = <<>> THEN TRUE
    ELSE IF a[Len(a)] # b[Len(b)] THEN a[Len(a)] < b[Len(b)]
    ELSE BigLeq(SubSeq(a, 1, Len(a) - 1), SubSeq(b, 1, Len(b) - 1))

----------------------------------------------------------------------------
(* compute_semantic_match: TfidfVectorizer(stop_words="english") over the
   two documents, then cosine_similarity of the two rows *)

(* \w of the vectorizer's token_pattern *)
WordChars == Range(UpperChars) \cup Range(LowerChars) \cup Digits \cup {"_"}

(* the entries of the vectorizer's English stop word list that the
   documents of the model can spell; every word of STOPWORDS is one *)
ENGLISH_STOP_WORDS ==
    STOPWORDS_AT_IMPORT \cup { <<"n","o","t">>, <<"c","a","n">>, <<"h","a","s">>,
                     <<"a","l","l">>, <<"s","y","s","t","e","m">> }

(* the vectorizer's analyzer: lowercase, the matches of (?u)\b\w\w+\b (the
   maximal runs of two or more word characters), stop words removed *)
TfidfTokens(doc) ==
    LET s == Lower(doc)
        inWord(i) == i >= 1 /\ i <= Len(s) /\ s[i] \in WordChars
        starts == SelectSeq([i \in 1..Len(s) |-> i],
                            LAMBDA i : inWord(i) /\ ~inWord(i - 1))
        endOf(i) == CHOOSE j \in i..Len(s) :
                        /\ ~inWord(j + 1)
                        /\ \A k \in i..j : inWord(k)
        runs == List([k \in 1..Len(starts) |-> SubSeq(s, starts[k], endOf(starts[k]))])
    IN  SelectSeq(runs, LAMBDA t : Len(t) >= 2 /\ t \notin ENGLISH_STOP_WORDS)

(* fit: the vocabulary is the set of terms of the corpus *)
Vocabulary(corpus) == UNION {Range(TfidfTokens(corpus[d])) : d \in 1..Len(corpus)}

(* the squared smoothed idf of a term of one of the two documents only,
   (ln(3/2) + 1)^2 = 1.9753321..., as IdfNum / IdfDen; a term of both has
   idf ln(3/3) + 1 = 1 *)
IdfNum == 1975332
IdfDen == 1000000

(* the largest s in lo..hi with s^2 * p <= q *)
RECURSIVE SqrtSearch(_, _, _, _)
SqrtSearch(lo, hi, p, q) ==
    IF lo = hi THEN lo
    ELSE LET mid == (lo + hi + 1) \div 2
             m == BigFromInt(mid)
         IN  IF BigLeq(BigMul(BigMul(m, m), p), q)
             THEN SqrtSearch(mid, hi, p, q)
             ELSE SqrtSearch(lo, mid - 1, p, q)

RECURSIVE Sum(_)
Sum(ns) == IF ns = <<>> THEN 0 ELSE Head(ns) + Sum(Tail(ns))

(* what a call gives: the value returned, or the exception raised *)
Returned(v) == [value |-> v]
Raised(e) == [raised |-> e]

(* cosine_similarity of the two tf-idf rows, in units of 10^-5, rounded
   down: sum(a*b) / sqrt(sum(a^2 idf^2) * sum(b^2 idf^2)), a and b the term
   counts; a row without a term of the other has cosine 0 *)
TfidfCosine(tokensA, tokensB) ==
    LET rowA == Counter(tokensA)
        rowB == Counter(tokensB)
        tfB(w) == CountOf(tokensB, w)
        tfA(w) == CountOf(tokensA, w)
        dot   == Sum(List([k \in 1..Len(rowA) |-> rowA[k].count * tfB(rowA[k].word)]))
        bothA == Sum(List([k \in 1..Len(rowA) |->
                        IF tfB(rowA[k].word) > 0 THEN rowA[k].count * rowA[k].count ELSE 0]))
        onlyA == Sum(List([k \in 1..Len(rowA) |->
                        IF tfB(rowA[k].word) = 0 THEN rowA[k].count * rowA[k].count ELSE 0]))
        bothB == Sum(List([k \in 1..Len(rowB) |->
                        IF tfA(rowB[k].word) > 0 THEN rowB[k].count * rowB[k].count ELSE 0]))
        onlyB == Sum(List([k \in 1..Len(rowB) |->
                        IF tfA(rowB[k].word) = 0 THEN rowB[k].count * rowB[k].count ELSE 0]))
        den   == BigFromInt(IdfDen)
        normA == BigAdd(BigMul(BigFromInt(bothA), den),
                        BigMul(BigFromInt(onlyA), BigFromInt(IdfNum)))
        normB == BigAdd(BigMul(BigFromInt(bothB), den),
                        BigMul(BigFromInt(onlyB), BigFromInt(IdfNum)))
        d     == BigMul(BigMul(BigFromInt(dot), BigFromInt(100000)), den)
    IN  IF dot = 0 THEN 0
        ELSE SqrtSearch(0, 100000, BigMul(normA, normB), BigMul(d, d))

(* the float compute_semantic_match returns, in units of 10^-5, or the
   ValueError of fit_transform on an empty vocabulary *)
compute_semantic_match(resume, jd) ==
    LET corpus == <<resume, jd>>
    IN  IF Vocabulary(corpus) = {} THEN Raised("ValueError")
        ELSE Returned(TfidfCosine(TfidfTokens(corpus[1]), TfidfTokens(corpus[2])))

----------------------------------------------------------------------------
(* analyze_resume *)

TopK == 30          \* extract_keywords(jd_text, top_k=30)
MissingCap == 15    \* skills_missing[:15]
ExcerptLen == 500   \* resume_text[:500]

MODEL_NAME == "TF-IDF cosine similarity (lightweight)"

(* the report of the empty-input return *)
MissingTextReport ==
    [match_score |-> 0,
     summary |-> "Missing resume or job description text.",
     skills_present |-> <<>>,
     skills_missing |-> <<>>,
     jd_keywords |-> <<>>,
     model_name |-> MODEL_NAME]

(* sim * 100.0: a similarity in units of 10^-5 is that many thousandths of
   a percent *)
Percent(sim) == sim

(* round(match_score, 2): thousandths of a percent to hundredths, to the
   nearest; a score is kept rounded down to the thousandth, so a last digit
   of 5 stands for a value at or above the half, which rounds up unless it
   is the half exactly, which no two documents of the inputs give *)
Round2(score) == (score + 5) \div 10

(* the if/elif chain over match_score, in thousandths of a percent *)
SummaryOf(score) ==
    IF score >= 80 * 1000
    THEN "Excellent match - your resume is highly aligned with this job."
    ELSE IF score >= 60 * 1000
    THEN "Good match - with a few improvements, this resume will be strong."
    ELSE IF score >= 40 * 1000
    THEN "Partial match - you are missing several key skills from the job description."
    ELSE "Low match - consider tailoring your resume significantly to this role."

(* kw in resume_text in place of kw in resume_lower *)
PresentInCaseSensitive(keywords, resume) ==
    SelectSeq(keywords, LAMBDA kw : IsSubstring(kw, resume))

(* the two lists the for loop over jd_keywords builds *)
PresentIn(keywords, resume) ==
    SelectSeq(keywords, LAMBDA kw : IsSubstring(kw, Lower(resume)))

MissingFrom(keywords, resume) ==
    SelectSeq(keywords, LAMBDA kw : ~IsSubstring(kw, Lower(resume)))

(* the dict of the final return *)
Report(score, text, present, missing, keywords) ==
    [match_score |-> Round2(score),
     summary |-> text,
     skills_present |-> present,
     skills_missing |-> Prefix(missing, MissingCap),
     jd_keywords |-> keywords,
     model_name |-> MODEL_NAME]

(* if not resume_text, without the test of jd_text *)
IsMissingResumeOnly(resume, jd) == resume = <<>>

(* if not resume_text or not jd_text, of the two cleaned texts *)
IsMissing(resume, jd) == resume = <<>> \/ jd = <<>>

(* analyze_resume as one call *)
analyze_resume(resume, jd) ==
    LET r == clean_text(resume)
        j == clean_text(jd)
    IN  IF IsMissing(r, j) THEN Returned(MissingTextReport)
        ELSE LET sim == compute_semantic_match(r, j)
             IN  IF sim = Raised("ValueError") THEN sim
                 ELSE LET score == Percent(sim.value)
                          keywords == extract_keywords(j, TopK)
                      IN  Returned(Report(score, SummaryOf(score),
                                          PresentIn(keywords, r),
                                          MissingFrom(keywords, r), keywords))

----------------------------------------------------------------------------
(* main.py *)

RECURSIVE JoinRange(_, _, _, _)
JoinRange(sep, chunks, lo, hi) ==
    IF lo > hi THEN <<>>
    ELSE IF lo = hi THEN chunks[lo]
    ELSE LET mid == (lo + hi) \div 2
         IN  JoinRange(sep, chunks, lo, mid) \o sep \o JoinRange(sep, chunks, mid + 1, hi)

(* sep.join(chunks) *)
Join(sep, chunks) == JoinRange(sep, chunks, 1, Len(chunks))

(* the loop over reader.pages and the join: page.extract_text() or "" *)
ExtractedText(pages) ==
    Join(<<"\n">>,
         List([k \in 1..Len(pages) |-> IF pages[k] = None THEN <<>> ELSE pages[k]]))

(* the excerpt taken from the cleaned text *)
PdfResponseCleanedExcerpt(text, report) ==
    report @@ [resume_text_excerpt |-> Prefix(clean_text(text), 500)]

(* {"resume_text_excerpt": resume_text[:500], **result}: a key of result
   replaces the same key before it *)
PdfResponse(text, report) ==
    report @@ [resume_text_excerpt |-> Prefix(text, ExcerptLen)]

----------------------------------------------------------------------------
(* The requests.  A request is a POST to /analyze-text or /analyze-pdf, or a
   direct call of analyze_resume, which alone can pass None. *)

MaxRequests == 2

Requests == 1..MaxRequests

Pending == [pending |-> TRUE]

(* the arguments of the analyze_resume call request r makes *)
ArgsOf(req) ==
    IF req.endpoint = "/analyze-pdf"
    THEN <<ExtractedText(req.pages), req.job_description>>
    ELSE <<req.resume_text, req.job_description>>

(* analyze_text, analyze_pdf up to their analyze_resume call, or the direct
   caller: binds the parameters of analyze_resume *)
Enter(r) ==
    /\ pc[r] = "received"
    /\ resume_text' = [resume_text EXCEPT ![r] = ArgsOf(request[r])[1]]
    /\ jd_text' = [jd_text EXCEPT ![r] = ArgsOf(request[r])[2]]
    /\ pc' = [pc EXCEPT ![r] = "clean"]
    /\ UNCHANGED <<STOPWORDS, request, match_score, jd_keywords, skills_present,
                   skills_missing, summary, result, response, scorer_calls,
                   keyword_calls, callVars>>

(* resume_text = clean_text(resume_text); jd_text = clean_text(jd_text) *)
Clean(r) ==
    /\ pc[r] = "clean"
    /\ resume_text' = [resume_text EXCEPT ![r] = clean_text(resume_text[r])]
    /\ jd_text' = [jd_text EXCEPT ![r] = clean_text(jd_text[r])]
    /\ pc' = [pc EXCEPT ![r] = "check"]
    /\ UNCHANGED <<STOPWORDS, request, match_score, jd_keywords, skills_present,
                   skills_missing, summary, result, response, scorer_calls,
                   keyword_calls, callVars>>

(* if not resume_text or not jd_text: return the fixed report *)
CheckMissing(r) ==
    /\ pc[r] = "check"
    /\ IF IsMissing(resume_text[r], jd_text[r])
       THEN /\ result' = [result EXCEPT ![r] = Returned(MissingTextReport)]
            /\ pc' = [pc EXCEPT ![r] = "respond"]
       ELSE /\ pc' = [pc EXCEPT ![r] = "score"]
            /\ UNCHANGED result
    /\ UNCHANGED <<STOPWORDS, request, resume_text, jd_text, match_score,
                   jd_keywords, skills_present, skills_missing, summary,
                   response, scorer_calls, keyword_calls, callVars>>

(* sim = compute_semantic_match(resume_text, jd_text); match_score = sim * 100.0;
   the ValueError of the vectorizer leaves analyze_resume and the handler *)
Score(r) ==
    /\ pc[r] = "score"
    /\ scorer_calls' = scorer_calls \cup
           {[by |-> r, resume_text |-> resume_text[r], jd_text |-> jd_text[r]]}
    /\ LET sim == compute_semantic_match(resume_text[r], jd_text[r])
       IN  IF sim = Raised("ValueError")
           THEN /\ result' = [result EXCEPT ![r] = sim]
                /\ pc' = [pc EXCEPT ![r] = "respond"]
                /\ UNCHANGED match_score
           ELSE /\ match_score' = [match_score EXCEPT ![r] = Percent(sim.value)]
                /\ pc' = [pc EXCEPT ![r] = "keywords"]
                /\ UNCHANGED result
    /\ UNCHANGED <<STOPWORDS, request, resume_text, jd_text, jd_keywords,
                   skills_present, skills_missing, summary, response,
                   keyword_calls, callVars>>

(* jd_text kept in one place for all calls *)
KeywordSourceOfFirstRequest(r) == jd_text[1]

(* the text analyze_resume hands to extract_keywords *)
KeywordSource(r) == jd_text[r]

(* jd_keywords = extract_keywords(jd_text, top_k=30) *)
Keywords(r) ==
    /\ pc[r] = "keywords"
    /\ keyword_calls' = keyword_calls \cup
           {[by |-> r, text |-> KeywordSource(r), top_k |-> TopK]}
    /\ jd_keywords' = [jd_keywords EXCEPT ![r] = extract_keywords(KeywordSource(r), TopK)]
    /\ pc' = [pc EXCEPT ![r] = "partition"]
    /\ UNCHANGED <<STOPWORDS, request, resume_text, jd_text, match_score,
                   skills_present, skills_missing, summary, result, response,
                   scorer_calls, callVars>>

(* resume_lower = resume_text.lower() and the for loop over jd_keywords *)
Partition(r) ==
    /\ pc[r] = "partition"
    /\ skills_present' = [skills_present EXCEPT ![r] =
                              PresentIn(jd_keywords[r], resume_text[r])]
    /\ skills_missing' = [skills_missing EXCEPT ![r] =
                              MissingFrom(jd_keywords[r], resume_text[r])]
    /\ pc' = [pc EXCEPT ![r] = "summary"]
    /\ UNCHANGED <<STOPWORDS, request, resume_text, jd_text, match_score,
                   jd_keywords, summary, result, response, scorer_calls,
                   keyword_calls, callVars>>

(* the if/elif chain that sets summary *)
Summarize(r) ==
    /\ pc[r] = "summary"
    /\ summary' = [summary EXCEPT ![r] = SummaryOf(match_score[r])]
    /\ pc' = [pc EXCEPT ![r] = "return"]
    /\ UNCHANGED <<STOPWORDS, request, resume_text, jd_text, match_score,
                   jd_keywords, skills_present, skills_missing, result,
                   response, scorer_calls, keyword_calls, callVars>>

(* the final return of analyze_resume *)
Return(r) ==
    /\ pc[r] = "return"
    /\ result' = [result EXCEPT ![r] =
                      Returned(Report(match_score[r], summary[r], skills_present[r],
                                      skills_missing[r], jd_keywords[r]))]
    /\ pc' = [pc EXCEPT ![r] = "respond"]
    /\ UNCHANGED <<STOPWORDS, request, resume_text, jd_text, match_score,
                   jd_keywords, skills_present, skills_missing, summary,
                   response, scorer_calls, keyword_calls, callVars>>

(* what the handler makes of the result: analyze_text and the direct caller
   pass it on, analyze_pdf adds the excerpt; an exception passes through *)
ResponseTo(req, res) ==
    IF res = Raised("ValueError") THEN res
    ELSE IF req.endpoint = "/analyze-pdf"
         THEN Returned(PdfResponse(ExtractedText(req.pages), res.value))
         ELSE res

Respond(r) ==
    /\ pc[r] = "respond"
    /\ response' = [response EXCEPT ![r] = ResponseTo(request[r], result[r])]
    /\ pc' = [pc EXCEPT ![r] = "done"]
    /\ UNCHANGED <<STOPWORDS, request, resume_text, jd_text, match_score,
                   jd_keywords, skills_present, skills_missing, summary,
                   result, scorer_calls, keyword_calls, callVars>>

NextRequests ==
    \E r \in Requests :
        \/ Enter(r)
        \/ Clean(r)
        \/ CheckMissing(r)
        \/ Score(r)
        \/ Keywords(r)
        \/ Partition(r)
        \/ Summarize(r)
        \/ Return(r)
        \/ Respond(r)

----------------------------------------------------------------------------
(* The inputs *)

MaxResumeWords == 1
MaxJdWords == 2
MaxPages == 2
MaxTextLen == 4
MaxWords == 3
MaxTopK == 2

(* texts, character by character *)
W_API == <<"A","P","I">>
W_rapid == <<"r","a","p","i","d">>
W_the == <<"t","h","e">>
W_nodedotjs == <<"n","o","d","e",".","j","s">>
W_nodejs == <<"n","o","d","e","j","s">>
W_a == <<"a">>
W_api == <<"a","p","i">>
W_apidot == <<"a","p","i",".">>
W_sql == <<"s","q","l">>
W_jvm == <<"j","v","m">>
W_dot == <<".">>
W_system == <<"s","y","s","t","e","m">>
T_ws == <<" ","\n","\t">>
T_ragged == <<"\n"," ","A","P","I"," ","\t","\n"," ","r","a","p","i","d"," ">>
T_crlf == <<"A","P","I","\r","\n","r","a","p","i","d">>
T_APInodejs == <<"A","P","I"," ","n","o","d","e","j","s">>

Words(n, lexicon) == UNION {[1..k -> lexicon] : k \in 0..n}

Spaced(words) == Join(<<" ">>, List(words))

Times(n, word) == [k \in 1..n |-> word]

(* words for the texts of the requests *)
Lexicon == {W_API, W_rapid, W_the, W_nodedotjs}

(* three keywords that are no stop words of either list *)
KwA == W_api
KwB == W_sql
KwC == W_jvm

(* the k-th of 64 three-letter words over q, x, y, z: none is a stop word *)
Numbered(k) ==
    LET letter == <<"q", "x", "y", "z">>
    IN  <<letter[((k \div 16) % 4) + 1], letter[((k \div 4) % 4) + 1], letter[(k % 4) + 1]>>

(* n distinct words, then every second of them once more: with more than
   TopK of them the keyword list is cut, with more than MissingCap of them
   missing the missing list is *)
ManyWords(n) ==
    Spaced([k \in 1..n |-> Numbered(k - 1)]
           \o [k \in 1..(n \div 2) |-> Numbered(2 * k - 1)])

(* a page of more than ExcerptLen characters *)
LongPage == Spaced([k \in 1..(ExcerptLen \div 4 + 2) |-> Numbered(k % 64)])

(* pairs of term counts whose cosine lies just under 40%, 60%, 80% *)
NearTier ==
    { <<Spaced(Times(3, KwB) \o Times(10, KwC)),
        Spaced(Times(7, KwA) \o Times(12, KwB) \o Times(3, KwC))>>,
      <<Spaced(Times(1, KwA) \o Times(1, KwB) \o Times(9, KwC)),
        Spaced(Times(4, KwA) \o Times(4, KwB) \o Times(3, KwC))>>,
      <<Spaced(Times(5, KwB) \o Times(7, KwC)),
        Spaced(Times(3, KwA) \o Times(1, KwB) \o Times(10, KwC))>> }

(* (resume_text, job_description) of the POSTs to /analyze-text *)
TextPayloads ==
    {<<Spaced(r), Spaced(j)>> : r \in Words(MaxResumeWords, Lexicon),
                                j \in Words(MaxJdWords, Lexicon)}
    \cup NearTier
    \cup { <<T_ws, W_API>>, <<W_API, T_ws>>,
           <<T_ragged, T_crlf>>,
           <<W_dot, W_the>>, <<W_dot, W_API>>,
           <<W_system, W_system>>, <<W_a, W_a>>, <<W_a, W_API>>,
           <<W_nodedotjs, W_nodejs>>, <<W_nodejs, W_nodedotjs>>,
           <<Spaced(Times(2, KwA)), Spaced(Times(2, KwA))>>,
           <<ManyWords(4), ManyWords(TopK + 2)>> }

(* the arguments of the direct calls: None for either text *)
DirectArgs ==
    { <<None, W_API>>, <<W_API, None>>, <<None, None>>, <<W_rapid, W_API>> }

(* what page.extract_text() gives for a page: None for a page without text *)
PageTexts == {None, <<>>, W_API, LongPage}

PdfJds == {<<>>, W_the, T_APInodejs}

PdfUploads ==
    {<<pages, j>> : pages \in UNION {[1..k -> PageTexts] : k \in 0..MaxPages},
                    j \in PdfJds}

RequestsReceived ==
    {[endpoint |-> "/analyze-text", resume_text |-> p[1], job_description |-> p[2]] :
        p \in TextPayloads}
    \cup {[endpoint |-> "analyze_resume", resume_text |-> p[1], job_description |-> p[2]] :
        p \in DirectArgs}
    \cup {[endpoint |-> "/analyze-pdf", pages |-> List(p[1]), job_description |-> p[2]] :
        p \in PdfUploads}

(* the requests that run side by side *)
ConcurrentRequests ==
    { [endpoint |-> "/analyze-text", resume_text |-> W_rapid, job_description |-> T_APInodejs],
      [endpoint |-> "/analyze-text", resume_text |-> W_the, job_description |-> W_a],
      [endpoint |-> "/analyze-text", resume_text |-> T_ws, job_description |-> W_API],
      [endpoint |-> "/analyze-pdf", pages |-> <<W_nodejs, None>>, job_description |-> W_nodedotjs] }

NoRequest == [endpoint |-> "none"]

InitLocals ==
    /\ STOPWORDS = STOPWORDS_AT_IMPORT
    /\ resume_text = [r \in Requests |-> <<>>]
    /\ jd_text = [r \in Requests |-> <<>>]
    /\ match_score = [r \in Requests |-> 0]
    /\ jd_keywords = [r \in Requests |-> <<>>]
    /\ skills_present = [r \in Requests |-> <<>>]
    /\ skills_missing = [r \in Requests |-> <<>>]
    /\ summary = [r \in Requests |-> ""]
    /\ result = [r \in Requests |-> Pending]
    /\ response = [r \in Requests |-> Pending]
    /\ scorer_calls = {}
    /\ keyword_calls = {}

NoCall == [fn |-> "idle"]

(* one request, of any kind *)
InitRequest ==
    /\ InitLocals
    /\ \E req \in RequestsReceived :
           request = [r \in Requests |-> IF r = 1 THEN req ELSE NoRequest]
    /\ pc = [r \in Requests |-> IF r = 1 THEN "received" ELSE "idle"]
    /\ call = NoCall
    /\ ret = <<>>

(* MaxRequests requests whose steps interleave *)
InitConcurrent ==
    /\ InitLocals
    /\ request \in [Requests -> ConcurrentRequests]
    /\ pc = [r \in Requests |-> "received"]
    /\ call = NoCall
    /\ ret = <<>>

SpecConcurrent == InitConcurrent /\ [][NextRequests]_vars

----------------------------------------------------------------------------
(* Direct calls of clean_text, tokenize and extract_keywords *)

PureChars == {"a", "B", ".", " ", "\n", "\t"}

PureLexicon == {W_the, W_API, W_apidot, W_rapid, W_a}

(* every text of at most MaxTextLen characters, every text of at most
   MaxWords words, and one of more than TopK distinct words *)
PureTexts ==
    UNION {[1..n -> PureChars] : n \in 0..MaxTextLen}
    \cup {Spaced(ws) : ws \in Words(MaxWords, PureLexicon)}
    \cup {ManyWords(TopK + 2), T_ragged, T_crlf}

TopKs == (0..MaxTopK) \cup {TopK}

InitCalls ==
    /\ InitLocals
    /\ request = [r \in Requests |-> NoRequest]
    /\ pc = [r \in Requests |-> "idle"]
    /\ \E text \in PureTexts \cup {None} : call = [fn |-> "none", text |-> List(text)]
    /\ ret = <<>>

CallCleanText ==
    /\ call.fn = "none"
    /\ call' = [fn |-> "clean_text", text |-> call.text]
    /\ ret' = clean_text(call.text)
    /\ UNCHANGED <<STOPWORDS, reqVars>>

CallTokenize ==
    /\ call.fn = "none"
    /\ call.text # None
    /\ call' = [fn |-> "tokenize", text |-> call.text]
    /\ ret' = tokenize(call.text)
    /\ UNCHANGED <<STOPWORDS, reqVars>>

CallExtractKeywords ==
    /\ call.fn = "none"
    /\ call.text # None
    /\ \E k \in TopKs :
           /\ call' = [fn |-> "extract_keywords", text |-> call.text, top_k |-> k]
           /\ ret' = extract_keywords(call.text, k)
    /\ UNCHANGED <<STOPWORDS, reqVars>>

NextCalls == CallCleanText \/ CallTokenize \/ CallExtractKeywords

(* one request, or one direct call *)
Init == InitRequest \/ InitCalls

Next == NextRequests \/ NextCalls

Spec == Init /\ [][Next]_vars

----------------------------------------------------------------------------
(* Properties *)

Active(r) == pc[r] # "idle"

Done(r) == pc[r] = "done"

IsReturned(x) == "value" \in DOMAIN x

(* analyze_resume of request r is over: returned or raised *)
Over(r) == pc[r] \in {"respond", "done"}

CleanResume(r) == clean_text(ArgsOf(request[r])[1])

CleanJd(r) == clean_text(ArgsOf(request[r])[2])

EmptyInput(r) == CleanResume(r) = <<>> \/ CleanJd(r) = <<>>

ReportFields ==
    {"match_score", "summary", "skills_present", "skills_missing",
     "jd_keywords", "model_name"}

(* the position of w in the duplicate-free sequence s *)
Pos(s, w) == CHOOSE i \in 1..Len(s) : s[i] = w

(* s holds no element twice, holds only elements of t, and holds them in
   the order t does *)
InOrderOf(s, t) ==
    /\ \A i, j \in 1..Len(s) : i < j => s[i] # s[j]
    /\ \A i \in 1..Len(s) : \E k \in 1..Len(t) : t[k] = s[i]
    /\ \A i, j \in 1..Len(s) : i < j => Pos(t, s[i]) < Pos(t, s[j])

(* C1: analyze_resume never raises: every request that is over has a
   report, whatever the two texts *)
C1_NeverRaises ==
    \A r \in Requests : Over(r) => IsReturned(result[r])

(* C2: when either cleaned text is empty, analyze_resume returns exactly the
   fixed report, without a call of the scorer or of the keyword extractor;
   the scorer is never called with an empty text *)
C2_EmptyInputShortCircuits ==
    /\ \A r \in Requests :
          (Active(r) /\ EmptyInput(r)) =>
              /\ \A c \in scorer_calls : c.by # r
              /\ \A c \in keyword_calls : c.by # r
              /\ pc[r] \notin {"score", "keywords", "partition", "summary", "return"}
              /\ Over(r) =>
                    result[r] = Returned(
                        [match_score |-> 0,
                         summary |-> "Missing resume or job description text.",
                         skills_present |-> <<>>,
                         skills_missing |-> <<>>,
                         jd_keywords |-> <<>>,
                         model_name |-> "TF-IDF cosine similarity (lightweight)"])
    /\ \A c \in scorer_calls : c.resume_text # <<>> /\ c.jd_text # <<>>

C2_Witness ==
    \E r \in Requests :
        /\ Done(r)
        /\ CleanResume(r) # <<>>
        /\ CleanJd(r) = <<>>
        /\ IsReturned(response[r])
        /\ response[r].value.match_score = 0

(* C3: the summary of a report for non-empty inputs is the tier of the
   match_score the report holds: at least 80 Excellent, at least 60 Good, at
   least 40 Partial, else Low *)
C3_SummaryIsTierOfReportedScore ==
    \A r \in Requests :
        (Over(r) /\ ~EmptyInput(r) /\ IsReturned(result[r])) =>
            LET reported == result[r].value.match_score
            IN  result[r].value.summary =
                    (IF reported >= 80 * 100
                     THEN "Excellent match - your resume is highly aligned with this job."
                     ELSE IF reported >= 60 * 100
                     THEN "Good match - with a few improvements, this resume will be strong."
                     ELSE IF reported >= 40 * 100
                     THEN "Partial match - you are missing several key skills from the job description."
                     ELSE "Low match - consider tailoring your resume significantly to this role.")

(* C4: skills_present holds exactly the jd keywords that occur in the
   lowercased cleaned resume as a substring, skills_missing the first 15 of
   the others, both in the order of jd_keywords; the two are disjoint and
   skills_present with the uncut missing list is jd_keywords *)
C4_Partition ==
    \A r \in Requests :
        (Over(r) /\ ~EmptyInput(r) /\ IsReturned(result[r])) =>
            LET rep == result[r].value
                kws == rep.jd_keywords
                resume == Lower(CleanResume(r))
                uncut == skills_missing[r]
            IN  /\ \A k \in 1..Len(kws) :
                      /\ kws[k] \in Range(rep.skills_present) <=> IsSubstring(kws[k], resume)
                      /\ kws[k] \in Range(uncut) <=> ~IsSubstring(kws[k], resume)
                /\ InOrderOf(rep.skills_present, kws)
                /\ InOrderOf(uncut, kws)
                /\ Len(rep.skills_missing) = (IF Len(uncut) < 15 THEN Len(uncut) ELSE 15)
                /\ \A i \in 1..Len(rep.skills_missing) : rep.skills_missing[i] = uncut[i]
                /\ Range(rep.skills_present) \cap Range(uncut) = {}
                /\ Range(rep.skills_present) \cup Range(uncut) = Range(kws)

C4_Witness ==
    \E r \in Requests :
        /\ Done(r)
        /\ IsReturned(result[r])
        /\ result[r].value.skills_present # <<>>
        /\ Len(skills_missing[r]) > 15
        /\ Len(result[r].value.skills_missing) = 15

(* C8: however the steps of the requests interleave, every request gets the
   response it gets when it runs alone, and STOPWORDS stays as built *)
C8_Isolated ==
    /\ STOPWORDS = STOPWORDS_AT_IMPORT
    /\ \A r \in Requests :
          Done(r) =>
              response[r] = ResponseTo(request[r],
                                       analyze_resume(ArgsOf(request[r])[1],
                                                      ArgsOf(request[r])[2]))

C8_Witness ==
    /\ \A r \in Requests : Done(r) /\ IsReturned(response[r])
    /\ \E r, q \in Requests :
          /\ response[r] # response[q]
          /\ response[r].value.jd_keywords # <<>>
          /\ response[q].value.jd_keywords # <<>>

(* C9: /analyze-pdf answers with the six fields of the report analyze_resume
   gives for the page texts joined with newline, a page without text
   counting as empty, and with resume_text_excerpt, the first 500
   characters of the joined text as extracted; /analyze-text answers with
   the report itself *)
C9_PdfResponse ==
    \A r \in Requests :
      /\ (Done(r) /\ request[r].endpoint = "/analyze-text") =>
            response[r] = analyze_resume(request[r].resume_text,
                                         request[r].job_description)
      /\ (Done(r) /\ request[r].endpoint = "/analyze-pdf") =>
            LET text == ExtractedText(request[r].pages)
                alone == analyze_resume(text, request[r].job_description)
            IN  IF ~IsReturned(alone) THEN response[r] = alone
                ELSE /\ IsReturned(response[r])
                     /\ DOMAIN response[r].value = ReportFields \cup {"resume_text_excerpt"}
                     /\ \A f \in ReportFields : response[r].value[f] = alone.value[f]
                     /\ LET excerpt == response[r].value.resume_text_excerpt
                        IN  /\ Len(excerpt) = (IF Len(text) < 500 THEN Len(text) ELSE 500)
                            /\ \A i \in 1..Len(excerpt) : excerpt[i] = text[i]

C9_Witness ==
    \E r \in Requests :
        /\ Done(r)
        /\ request[r].endpoint = "/analyze-pdf"
        /\ \E k \in 1..Len(request[r].pages) : request[r].pages[k] = None
        /\ Len(ExtractedText(request[r].pages)) > 500
        /\ IsReturned(response[r])
        /\ Len(response[r].value.resume_text_excerpt) = 500
        /\ response[r].value.jd_keywords # <<>>

(* C10: a jd keyword that is a token of the cleaned resume is in
   skills_present and not in skills_missing *)
C10_ResumeTokensArePresent ==
    \A r \in Requests :
        (Over(r) /\ ~EmptyInput(r) /\ IsReturned(result[r])) =>
            \A kw \in Range(result[r].value.jd_keywords) \cap Range(tokenize(CleanResume(r))) :
                /\ kw \in Range(result[r].value.skills_present)
                /\ kw \notin Range(result[r].value.skills_missing)

(* C5: extract_keywords(text, K) returns at most K tokens of the text, all
   distinct, by falling count and among equal counts by first occurrence;
   no token left out has a higher count than one returned; no tokens, no
   keywords; analyze_resume asks for 30 *)
C5_Keywords ==
    /\ call.fn = "extract_keywords" =>
          LET tokens == tokenize(call.text)
              count(w) == Cardinality({i \in 1..Len(tokens) : tokens[i] = w})
              first(w) == CHOOSE i \in 1..Len(tokens) :
                              tokens[i] = w /\ \A j \in 1..(i - 1) : tokens[j] # w
          IN  /\ Len(ret) <= call.top_k
              /\ \A i \in 1..Len(ret) : ret[i] \in Range(tokens)
              /\ \A i, j \in 1..Len(ret) :
                    i < j => /\ ret[i] # ret[j]
                             /\ count(ret[i]) >= count(ret[j])
                             /\ count(ret[i]) = count(ret[j]) => first(ret[i]) < first(ret[j])
              /\ \A w \in Range(tokens) \ Range(ret) :
                    \A i \in 1..Len(ret) : count(w) <= count(ret[i])
              /\ tokens = <<>> => ret = <<>>
    /\ \A c \in keyword_calls : c.top_k = 30
    /\ \A r \in Requests : Len(jd_keywords[r]) <= 30

C5_Witness ==
    /\ call.fn = "extract_keywords"
    /\ call.top_k = 30
    /\ Len(ret) = 30
    /\ Cardinality(Range(tokenize(call.text))) > 30
    /\ Len(tokenize(call.text)) > Cardinality(Range(tokenize(call.text)))

(* C6: tokenize returns no stopword and no token shorter than 3; it returns
   the words of the lowercased text without punctuation, split at
   whitespace, less the stopwords and the words of length at most 2, in
   order and with repeats *)
C6_Tokens ==
    call.fn = "tokenize" =>
        /\ \A i \in 1..Len(ret) : ret[i] \notin STOPWORDS_AT_IMPORT /\ Len(ret[i]) >= 3
        /\ ret = SelectSeq(Split(StripPunctuation(Lower(call.text))),
                           LAMBDA w : ~(w \in STOPWORDS_AT_IMPORT \/ Len(w) <= 2))

C6_Witness ==
    /\ call.fn = "tokenize"
    /\ \E i, j \in 1..Len(ret) : i < j /\ ret[i] = ret[j]
    /\ Len(Split(call.text)) > Len(ret)
    /\ \E i \in 1..Len(call.text) : call.text[i] \in Punctuation
    /\ \E i \in 1..Len(call.text) : call.text[i] \in Range(UpperChars)

(* C7: clean_text returns a text without a newline, without two spaces in a
   row and without whitespace at either end, whose other characters are
   those of the input in order; None and the empty text give the empty text *)
C7_Cleaned ==
    call.fn = "clean_text" =>
        /\ "\n" \notin Range(ret)
        /\ \A i \in 1..(Len(ret) - 1) : ~(ret[i] = " " /\ ret[i + 1] = " ")
        /\ ret # <<>> => ret[1] \notin Whitespace /\ ret[Len(ret)] \notin Whitespace
        /\ call.text \in {None, <<>>} => ret = <<>>
        /\ call.text # None =>
              SelectSeq(ret, LAMBDA c : c \notin Whitespace)
                  = SelectSeq(call.text, LAMBDA c : c \notin Whitespace)

C7_Witness ==
    /\ call.fn = "clean_text"
    /\ call.text # None
    /\ Len(call.text) > 2
    /\ call.text[1] \in Whitespace
    /\ call.text[Len(call.text)] \in Whitespace
    /\ \E i \in 2..(Len(call.text) - 2) :
          call.text[i] = "\t" /\ call.text[i + 1] = "\n"
    /\ Len(ret) > 2

====
